---- MODULE Spec2Model ----
(***************************************************************************)
(* d3p-protocol host adapters (examples/d3p_crewai_tool.py,                *)
(* d3p_langchain_tool.py, d3p_mcp_tool.py, d3p_openai_tool.py).            *)
(*                                                                         *)
(* A process runs one host adapter.  It discovers the services of a remote *)
(* manifest, builds one tool per manifest entry and dispatches calls to    *)
(* the services' endpoints.                                                *)
(*                                                                         *)
(* Strings are sequences of pieces (TLA+ strings); concatenation is \o.    *)
(* The head of an endpoint is spelled letter by letter, up to and with the *)
(* :// of a URL, so that startswith("http") reads the letters.             *)
(* Python dicts are functions whose DOMAIN is the set of keys present.     *)
(* Optional values are sequences of length 0 or 1.                         *)
(***************************************************************************)
EXTENDS Integers, Sequences, FiniteSets, TLC

VARIABLES adapter, mock_payments, loader, services, tools, call

vars == <<adapter, mock_payments, loader, services, tools, call>>

Adapters == {"crewai", "langchain", "mcp", "openai"}

----------------------------------------------------------------------------
(* Bounds and program constants *)

\* longest manifest fetched
MaxManifest == 2

\* resp.text[:500]
TextLimit == 500

\* HTTP status Payment Required
PaymentRequiredStatus == 402

BASE_URL == <<"h", "t", "t", "p", "s", ":", "/", "/", "labs.digital3.ai">>

----------------------------------------------------------------------------
(* Python helpers *)

EmptyDict == [k \in {} |-> 0]

\* dict.get(key, default)
Get(d, k, default) == IF k \in DOMAIN d THEN d[k] ELSE default

\* str.startswith("http"): the string begins with the letters h t t p
StartsWithHttp(s) ==
    /\ Len(s) >= 4
    /\ SubSeq(s, 1, 4) = <<"h", "t", "t", "p">>

Min(a, b) == IF a <= b THEN a ELSE b

\* variant that leaves the service id out of the name
D3pName_prefix_only(sid) == <<"d3p_">>

\* f"d3p_{sid}"
D3pName(sid) == <<"d3p_">> \o sid

----------------------------------------------------------------------------
(* json.loads on the argument strings of the model.  The strings are       *)
(* sequences over the alphabet 1 [ ] ; a JSON text of this alphabet is a   *)
(* number (digits) or a list holding at most one JSON text.                *)

RECURSIVE json_loads(_)
json_loads(s) ==
    IF Len(s) >= 1 /\ \A i \in 1..Len(s) : s[i] = "1"
    THEN [ok |-> TRUE, value |-> <<"number", Len(s)>>]
    ELSE IF Len(s) >= 2 /\ s[1] = "[" /\ s[Len(s)] = "]"
    THEN IF Len(s) = 2
         THEN [ok |-> TRUE, value |-> <<"list">>]
         ELSE LET inner == json_loads(SubSeq(s, 2, Len(s) - 1))
              IN  IF inner.ok
                  THEN [ok |-> TRUE, value |-> <<"list", inner.value>>]
                  ELSE [ok |-> FALSE, value |-> <<>>]
    ELSE [ok |-> FALSE, value |-> <<>>]

ArgStrings ==
    { <<>>, <<"1">>, <<"[">>, <<"1", "]">>, <<"[", "1", "]">> }

----------------------------------------------------------------------------
(* Manifest wire format: the "services" array of the fetched document.     *)
(* An entry is a dict with key service_id and optionally endpoint,         *)
(* pricing, description, capability_category, input_schema.                *)
(* input_schema.properties keeps its insertion order: a sequence of        *)
(* <<key, value>> pairs.                                                   *)

Sids == { <<"a">>, <<"b">> }

RelEndpoint == <<"/", "api/x">>
AbsEndpoint == <<"h", "t", "t", "p", "s", ":", "/", "/", "other.test/y">>

Props1 == << <<"currency", [type |-> "string"]>> >>
Props2 == << <<"currency", [type |-> "string", description |-> "ISO code"]>>,
             <<"amount", EmptyDict>> >>

\* a dict from optional values: each of ep, pr, de, ca, sc is <<>> or <<v>>
MkEntry(sid, ep, pr, de, ca, sc) ==
    [k \in {"service_id"}
          \cup (IF ep = <<>> THEN {} ELSE {"endpoint"})
          \cup (IF pr = <<>> THEN {} ELSE {"pricing"})
          \cup (IF de = <<>> THEN {} ELSE {"description"})
          \cup (IF ca = <<>> THEN {} ELSE {"capability_category"})
          \cup (IF sc = <<>> THEN {} ELSE {"input_schema"})
     |-> CASE k = "service_id" -> sid
           [] k = "endpoint" -> ep[1]
           [] k = "pricing" -> pr[1]
           [] k = "description" -> de[1]
           [] k = "capability_category" -> ca[1]
           [] k = "input_schema" -> sc[1]]

\* the entries of the manifests the dispatch model fetches.  Service a: a
\* relative endpoint priced 1, or an entry with neither endpoint nor
\* pricing.  Service b: an absolute endpoint priced 2, or an entry with no
\* endpoint whose pricing has no sats.
Entries ==
    { MkEntry(<<"a">>, <<RelEndpoint>>, <<[sats |-> 1]>>, << <<"Price feed">> >>,
              << <<"data">> >>, <<[properties |-> Props1]>>),
      MkEntry(<<"a">>, <<>>, <<>>, <<>>, <<>>, <<>>),
      MkEntry(<<"b">>, <<AbsEndpoint>>, <<[sats |-> 2]>>, <<>>,
              << <<"data">> >>, <<EmptyDict>>),
      MkEntry(<<"b">>, <<>>, <<EmptyDict>>, << <<"Mempool">> >>, <<>>,
              <<[properties |-> Props2]>>) }

\* the entries the export model draws from: every combination of the
\* optional keys
ExportEntries ==
    { MkEntry(sid, <<>>, pr, de, ca, sc) :
        sid \in Sids,
        pr \in { <<>>, <<EmptyDict>>, <<[sats |-> 5]>> },
        de \in { <<>>, << <<"Price feed">> >> },
        ca \in { <<>>, << <<"data">> >> },
        sc \in { <<>>, <<EmptyDict>>, <<[properties |-> Props1]>>,
                 <<[properties |-> Props2]>> } }

SeqsUpTo(S, n) == UNION { [1..k -> S] : k \in 0..n }

Manifests == SeqsUpTo(Entries, MaxManifest)

----------------------------------------------------------------------------
(* Fields every adapter derives from a manifest entry *)

\* svc.get("endpoint", f"/api/services/{sid}")
EndpointOf(svc, sid) ==
    Get(svc, "endpoint", <<"/", "api/services/">> \o sid)

\* endpoint unchanged when it starts with http, else f"{base_url}{endpoint}"
Resolve(base_url, endpoint) ==
    IF StartsWithHttp(endpoint) THEN endpoint ELSE base_url \o endpoint

\* svc.get("pricing", {}).get("sats", 0)
SatsOf(svc) == Get(Get(svc, "pricing", EmptyDict), "sats", 0)

\* svc.get("input_schema", {}).get("properties", {})
PropsOf(svc) == Get(Get(svc, "input_schema", EmptyDict), "properties", <<>>)

\* list(props.keys())
Keys(props) == [i \in 1..Len(props) |-> props[i][1]]

\* sep.join(parts)
RECURSIVE Join(_, _)
Join(sep, parts) ==
    IF parts = <<>> THEN <<>>
    ELSE IF Len(parts) = 1 THEN parts[1]
    ELSE parts[1] \o <<sep>> \o Join(sep, Tail(parts))

\* x or default, for a string x
OrStr(x, default) == IF x = <<>> THEN default ELSE x

\* f"{description} [{category}, {sats} sats]"
Summary(desc, cat, sats) ==
    desc \o <<" [">> \o cat \o <<", ", ToString(sats), " sats]">>

----------------------------------------------------------------------------
(* CrewAI: D3PServiceTool *)

\* class D3PServiceInput: the args_schema of every CrewAI tool
D3PServiceInput ==
    [title |-> "D3PServiceInput",
     doc |-> "Input schema for a d3p service call.",
     properties |-> << <<"payload",
          [type |-> "string",
           description |-> "JSON string with the service input parameters"]>> >>,
     required |-> <<"payload">>]

\* ", ".join(f'{k} ({v.get("type","")})' for k, v in props.items())
FieldsDoc(props) ==
    Join(", ", [i \in 1..Len(props) |->
                  <<props[i][1], " (", Get(props[i][2], "type", ""), ")">>])

\* the description both BaseTool adapters give a tool
BaseToolDescription(svc_desc, category, sats, fields) ==
    Summary(svc_desc, category, sats)
      \o <<". ", "Input fields: ">> \o OrStr(fields, <<"see docs">>)
      \o <<". ", "Pass a JSON string as payload.">>

\* D3PServiceTool.__init__(service_id, manifest_entry, mock_payments, base_url)
D3PServiceTool_init(service_id, manifest_entry, mock, base_url) ==
    LET svc == manifest_entry
        full_url == Resolve(base_url, EndpointOf(svc, service_id))
        svc_desc == Get(svc, "description",
                        <<"Call the ">> \o service_id \o <<" d3p service">>)
        category == Get(svc, "capability_category", <<>>)
        sats == SatsOf(svc)
        in_schema == Get(svc, "input_schema", EmptyDict)
        props == Get(in_schema, "properties", <<>>)
    IN  [name |-> D3pName(service_id),
         description |-> BaseToolDescription(svc_desc, category, sats, FieldsDoc(props)),
         args_schema |-> D3PServiceInput,
         service_id |-> service_id,
         endpoint |-> full_url,
         pricing_sats |-> sats,
         mock_payments |-> mock,
         base_url |-> base_url,
         service_schema |-> in_schema]

\* discover_d3p_tools: one tool per manifest entry, in manifest order
discover_d3p_tools(manifest, mock, base_url) ==
    [i \in 1..Len(manifest) |->
        D3PServiceTool_init(manifest[i]["service_id"], manifest[i], mock, base_url)]

----------------------------------------------------------------------------
(* LangChain: D3PTool *)

\* class D3PInput: the args_schema of every LangChain tool
D3PInput ==
    [title |-> "D3PInput",
     doc |-> "Input for a d3p service call - pass a JSON object.",
     properties |-> << <<"payload",
          [type |-> "string",
           description |-> "JSON string of the service input"]>> >>,
     required |-> <<"payload">>]

\* variant of D3PTool.__init__ whose description defaults to '' as the
\* OpenAI and MCP adapters' does
D3PTool_init_blank_default(service_id, manifest_entry, mock, base_url) ==
    LET svc == manifest_entry
        full_url == Resolve(base_url, EndpointOf(svc, service_id))
        svc_desc == Get(svc, "description", <<>>)
        category == Get(svc, "capability_category", <<>>)
        sats == SatsOf(svc)
        in_schema == Get(svc, "input_schema", EmptyDict)
        props == Get(in_schema, "properties", <<>>)
    IN  [name |-> D3pName(service_id),
         description |-> BaseToolDescription(svc_desc, category, sats, FieldsDoc(props)),
         args_schema |-> D3PInput,
         service_id |-> service_id,
         endpoint |-> full_url,
         pricing_sats |-> sats,
         mock_payments |-> mock,
         base_url |-> base_url,
         service_schema |-> in_schema]

\* D3PTool.__init__(service_id, manifest_entry, mock_payments, base_url)
D3PTool_init(service_id, manifest_entry, mock, base_url) ==
    LET svc == manifest_entry
        full_url == Resolve(base_url, EndpointOf(svc, service_id))
        svc_desc == Get(svc, "description",
                        <<"Call the ">> \o service_id \o <<" d3p service">>)
        category == Get(svc, "capability_category", <<>>)
        sats == SatsOf(svc)
        in_schema == Get(svc, "input_schema", EmptyDict)
        props == Get(in_schema, "properties", <<>>)
    IN  [name |-> D3pName(service_id),
         description |-> BaseToolDescription(svc_desc, category, sats, FieldsDoc(props)),
         args_schema |-> D3PInput,
         service_id |-> service_id,
         endpoint |-> full_url,
         pricing_sats |-> sats,
         mock_payments |-> mock,
         base_url |-> base_url,
         service_schema |-> in_schema]

\* D3PTool.from_manifest: one tool per manifest entry, in manifest order
from_manifest(manifest, mock, base_url) ==
    [i \in 1..Len(manifest) |->
        D3PTool_init(manifest[i]["service_id"], manifest[i], mock, base_url)]

----------------------------------------------------------------------------
(* OpenAI: D3POpenAI *)

\* one iteration of the loop of D3POpenAI.__init__:
\* self._services[f"d3p_{sid}"] = {**svc, "_endpoint": endpoint}
D3POpenAI_init_step(table, svc, base_url) ==
    LET sid == svc["service_id"]
        endpoint == Resolve(base_url, EndpointOf(svc, sid))
        name == D3pName(sid)
        stored == ("_endpoint" :> endpoint) @@ svc
    IN  [n \in DOMAIN table \cup {name} |->
            IF n = name THEN stored ELSE table[n]]

\* the whole loop of D3POpenAI.__init__ over a fetched manifest
RECURSIVE D3POpenAI_init(_, _, _)
D3POpenAI_init(table, manifest, base_url) ==
    IF manifest = <<>> THEN table
    ELSE D3POpenAI_init(D3POpenAI_init_step(table, Head(manifest), base_url),
                        Tail(manifest), base_url)

\* one element of D3POpenAI.tool_definitions()
OpenAIDefinition(func_name, svc) ==
    LET in_schema == Get(svc, "input_schema", [properties |-> <<>>])
        props == Get(in_schema, "properties", <<>>)
    IN  [name |-> func_name,
         description |-> Summary(Get(svc, "description", <<>>),
                                 Get(svc, "capability_category", <<>>),
                                 SatsOf(svc)),
         parameters |-> [type |-> "object",
                         properties |-> props,
                         required |-> Keys(props)]]

\* D3POpenAI.tool_definitions(): one definition per key of the table
tool_definitions(table) ==
    { OpenAIDefinition(n, table[n]) : n \in DOMAIN table }

----------------------------------------------------------------------------
(* MCP: the module-level registration loop *)

\* "; ".join(f"{k}: {v.get('description', v.get('type', ''))}" ...)
ParamDoc(props) ==
    Join("; ", [i \in 1..Len(props) |->
                  <<props[i][1], ": ",
                    Get(props[i][2], "description", Get(props[i][2], "type", ""))>>])

\* _make_tool(sid, endpoint, sats, desc, param_doc): the closure and the
\* name and docstring it is given
make_tool(sid, endpoint, sats, desc, param_doc) ==
    [sid |-> sid, endpoint |-> endpoint, sats |-> sats,
     fn_name |-> D3pName(sid),
     fn_doc |-> desc \o <<". Input (JSON string): ">>
                     \o OrStr(param_doc, <<"see docs">>),
     \* def tool_fn(params: str) -> str
     signature |-> [properties |-> << <<"params", [type |-> "string"]>> >>,
                    required |-> <<"params">>]]

\* one iteration of the registration loop: the entry stored in _services and
\* the tool registered with mcp.tool(name=..., description=...)
mcp_register(svc, base_url) ==
    LET sid == svc["service_id"]
        endpoint == Resolve(base_url, EndpointOf(svc, sid))
        sats == SatsOf(svc)
        desc == Summary(Get(svc, "description", <<>>),
                        Get(svc, "capability_category", <<>>), sats)
    IN  [sid |-> sid,
         stored |-> ("_endpoint" :> endpoint) @@ svc,
         tool |-> [name |-> D3pName(sid),
                   description |-> desc,
                   fn |-> make_tool(sid, endpoint, sats, desc,
                                    ParamDoc(PropsOf(svc)))]]

\* the _services table after one iteration
mcp_services_step(table, svc, base_url) ==
    LET r == mcp_register(svc, base_url)
    IN  [n \in DOMAIN table \cup {r.sid} |->
            IF n = r.sid THEN r.stored ELSE table[n]]

\* the registered tools after one iteration, in registration order
mcp_tools_step(registry, svc, base_url) ==
    Append(registry, mcp_register(svc, base_url).tool)

RECURSIVE mcp_services(_, _, _)
mcp_services(table, manifest, base_url) ==
    IF manifest = <<>> THEN table
    ELSE mcp_services(mcp_services_step(table, Head(manifest), base_url),
                      Tail(manifest), base_url)

RECURSIVE mcp_tools(_, _, _)
mcp_tools(registry, manifest, base_url) ==
    IF manifest = <<>> THEN registry
    ELSE mcp_tools(mcp_tools_step(registry, Head(manifest), base_url),
                   Tail(manifest), base_url)

----------------------------------------------------------------------------
(* Dispatch: the outbound request, the remote's answers, the results *)

\* variant that attaches the bypass header in both modes
Headers_always(mock) ==
    ("X-D3P-Cert-Test" :> "true") @@ ("Content-Type" :> "application/json")

\* headers = {"Content-Type": "application/json"}; in mock mode also
\* headers["X-D3P-Cert-Test"] = "true"
Headers(mock) ==
    IF mock
    THEN ("X-D3P-Cert-Test" :> "true") @@ ("Content-Type" :> "application/json")
    ELSE ("Content-Type" :> "application/json")

\* requests.post(url, json=data, headers=headers, timeout=15)
Post(url, data, headers) ==
    [url |-> url, json |-> data, headers |-> headers, timeout |-> 15]

\* response bodies: a JSON document, or text of some length that is not JSON
Bodies ==
    { [is_json |-> TRUE, value |-> [price |-> 50000], len |-> 16],
      [is_json |-> FALSE, value |-> EmptyDict, len |-> 10],
      [is_json |-> FALSE, value |-> EmptyDict, len |-> 600] }

\* what requests.post can do: raise (timeout, connection refused, DNS
\* failure) or return a response
Responses ==
    { [kind |-> "fail", status |-> 0,
       body |-> [is_json |-> FALSE, value |-> EmptyDict, len |-> 0]] }
    \cup { [kind |-> "http", status |-> st, body |-> b] :
             st \in {200, PaymentRequiredStatus, 500}, b \in Bodies }

\* the dict returned on a 402 in live mode
PaymentRequired(sats) ==
    [error |-> <<"L402 payment required">>,
     status |-> PaymentRequiredStatus,
     message |-> <<"Service requires ", ToString(sats), " sats via Lightning">>]

\* json.dumps(value)
JsonDumps(value) == [dumps |-> value]

\* resp.text[:500]
TextPrefix(body) == Min(body.len, TextLimit)

\* the outcome of the part of a dispatch up to requests.post
Returned(result) == [pc |-> "returned", sent |-> <<>>, result |-> <<result>>]
Sending(request) == [pc |-> "waiting", sent |-> <<request>>, result |-> <<>>]

\* the outcome of the part of a dispatch after requests.post; more holds
\* the requests that part sends (none: the adapters do not retry)
Raised(exc) ==
    [pc |-> "raised", result |-> <<>>, exc |-> <<exc>>, more |-> <<>>]
Result(result) ==
    [pc |-> "returned", result |-> <<result>>, exc |-> <<>>, more |-> <<>>]

\* variant of D3PServiceTool._run without the except clause: the payload is
\* posted whether or not it parses
D3PServiceTool_run_send_unchecked(self, payload) ==
    Sending(Post(self.endpoint, json_loads(payload).value,
                 Headers(self.mock_payments)))

\* D3PServiceTool._run, up to requests.post
D3PServiceTool_run_send(self, payload) ==
    LET data == json_loads(payload)
    IN  IF ~data.ok
        THEN Returned(JsonDumps([error |-> <<"Invalid JSON payload">>]))
        ELSE Sending(Post(self.endpoint, data.value, Headers(self.mock_payments)))

\* D3PServiceTool._run, from the return of requests.post
D3PServiceTool_run_recv(self, resp) ==
    IF resp.kind = "fail" THEN Raised("requests.RequestException")
    ELSE IF resp.status = PaymentRequiredStatus /\ ~self.mock_payments
    THEN Result(JsonDumps(PaymentRequired(self.pricing_sats)))
    ELSE IF resp.body.is_json THEN Result(JsonDumps(resp.body.value))
    ELSE Result([text |-> TextPrefix(resp.body)])

\* D3PTool._run, up to requests.post
D3PTool_run_send(self, payload) ==
    LET data == json_loads(payload)
    IN  IF ~data.ok
        THEN Returned(JsonDumps([error |-> <<"Invalid JSON payload">>]))
        ELSE Sending(Post(self.endpoint, data.value, Headers(self.mock_payments)))

\* D3PTool._run, from the return of requests.post
D3PTool_run_recv(self, resp) ==
    IF resp.kind = "fail" THEN Raised("requests.RequestException")
    ELSE IF resp.status = PaymentRequiredStatus /\ ~self.mock_payments
    THEN Result(JsonDumps(PaymentRequired(self.pricing_sats)))
    ELSE IF resp.body.is_json THEN Result(JsonDumps(resp.body.value))
    ELSE Result([text |-> TextPrefix(resp.body)])

\* tool_fn(params) with _call_service(endpoint, data, sats), up to
\* requests.post; MOCK_PAYMENTS is the module's global
tool_fn_send(fn, params, MOCK_PAYMENTS) ==
    LET data == json_loads(params)
    IN  IF ~data.ok
        THEN Returned(JsonDumps([error |-> <<"Invalid JSON">>]))
        ELSE Sending(Post(fn.endpoint, data.value, Headers(MOCK_PAYMENTS)))

\* variant of _call_service with the mode test of the 402 branch inverted
tool_fn_recv_inverted(fn, resp, MOCK_PAYMENTS) ==
    IF resp.kind = "fail" THEN Raised("requests.RequestException")
    ELSE IF resp.status = PaymentRequiredStatus /\ MOCK_PAYMENTS
    THEN Result(JsonDumps(PaymentRequired(fn.sats)))
    ELSE IF resp.body.is_json THEN Result(JsonDumps(resp.body.value))
    ELSE Result(JsonDumps([raw |-> TextPrefix(resp.body), status |-> resp.status]))

\* _call_service from the return of requests.post, and tool_fn's json.dumps
tool_fn_recv(fn, resp, MOCK_PAYMENTS) ==
    IF resp.kind = "fail" THEN Raised("requests.RequestException")
    ELSE IF resp.status = PaymentRequiredStatus /\ ~MOCK_PAYMENTS
    THEN Result(JsonDumps(PaymentRequired(fn.sats)))
    ELSE IF resp.body.is_json THEN Result(JsonDumps(resp.body.value))
    ELSE Result(JsonDumps([raw |-> TextPrefix(resp.body), status |-> resp.status]))

\* D3POpenAI.execute: svc = self._services.get(function_name)
Lookup(table, function_name) ==
    IF function_name \in DOMAIN table THEN <<table[function_name]>> ELSE <<>>

\* variant of D3POpenAI.execute that parses the arguments before it looks
\* at the result of the lookup
D3POpenAI_execute_send_parse_first(found, mock, function_name, arguments) ==
    LET data == json_loads(arguments)
    IN  IF ~data.ok
        THEN Returned(JsonDumps([error |-> <<"Invalid JSON arguments">>]))
        ELSE IF found = <<>>
        THEN Returned(JsonDumps([error |-> <<"Unknown function: ">> \o function_name]))
        ELSE Sending(Post(found[1]["_endpoint"], data.value, Headers(mock)))

\* D3POpenAI.execute, up to requests.post; found is the looked-up svc
D3POpenAI_execute_send(found, mock, function_name, arguments) ==
    IF found = <<>>
    THEN Returned(JsonDumps([error |-> <<"Unknown function: ">> \o function_name]))
    ELSE LET data == json_loads(arguments)
         IN  IF ~data.ok
             THEN Returned(JsonDumps([error |-> <<"Invalid JSON arguments">>]))
             ELSE Sending(Post(found[1]["_endpoint"], data.value, Headers(mock)))

\* variant of D3POpenAI.execute that posts once more when it gets a 402
D3POpenAI_execute_recv_retry(svc, mock, resp) ==
    IF resp.kind = "fail" THEN Raised("requests.RequestException")
    ELSE IF resp.status = PaymentRequiredStatus
    THEN [Result(JsonDumps(PaymentRequired(SatsOf(svc))))
            EXCEPT !.more = <<Post(svc["_endpoint"], <<"list">>, Headers(mock))>>]
    ELSE IF resp.body.is_json THEN Result(JsonDumps(resp.body.value))
    ELSE Result([text |-> TextPrefix(resp.body)])

\* D3POpenAI.execute, from the return of requests.post; svc is the local
\* variable bound by the lookup at the start of the call
D3POpenAI_execute_recv(svc, mock, resp) ==
    IF resp.kind = "fail" THEN Raised("requests.RequestException")
    ELSE IF resp.status = PaymentRequiredStatus /\ ~mock
    THEN Result(JsonDumps(PaymentRequired(SatsOf(svc))))
    ELSE IF resp.body.is_json THEN Result(JsonDumps(resp.body.value))
    ELSE Result([text |-> TextPrefix(resp.body)])

----------------------------------------------------------------------------
(* State *)

\* no dispatch in progress
Idle ==
    [pc |-> "idle", name |-> <<>>, args |-> <<>>, self |-> <<>>,
     sent |-> <<>>, resp |-> <<>>, result |-> <<>>, exc |-> <<>>]

\* the names a host asks D3POpenAI.execute for: the names of the services
\* a manifest can hold, and a service id without the prefix
FunctionNames == { D3pName(sid) : sid \in Sids } \cup { <<"a">> }

Loaded(m) == [pc |-> "idle", manifest |-> m, idx |-> Len(m) + 1]

\* the tools and the table an adapter holds after loading manifest m
ToolsAfter(a, m, mock) ==
    CASE a = "crewai" -> discover_d3p_tools(m, mock, BASE_URL)
      [] a = "langchain" -> from_manifest(m, mock, BASE_URL)
      [] a = "mcp" -> mcp_tools(<<>>, m, BASE_URL)
      [] a = "openai" -> <<>>

ServicesAfter(a, m) ==
    CASE a = "mcp" -> mcp_services(EmptyDict, m, BASE_URL)
      [] a = "openai" -> D3POpenAI_init(EmptyDict, m, BASE_URL)
      [] OTHER -> EmptyDict

\* the process has started: the manifest was fetched and loaded
InitFrom(M) ==
    /\ adapter \in Adapters
    /\ mock_payments \in BOOLEAN
    /\ \E m \in M :
         /\ loader = Loaded(m)
         /\ services = ServicesAfter(adapter, m)
         /\ tools = ToolsAfter(adapter, m, mock_payments)
    /\ call = Idle

Init == InitFrom(Manifests)

----------------------------------------------------------------------------
(* Discovery *)

\* discover_d3p_tools() is called again and its result replaces the tools
CrewAIDiscover ==
    /\ adapter = "crewai"
    /\ \E m \in Manifests :
         /\ tools' = discover_d3p_tools(m, mock_payments, BASE_URL)
         /\ loader' = Loaded(m)
    /\ UNCHANGED <<adapter, mock_payments, services, call>>

\* D3PTool.from_manifest() is called again and its result replaces the tools
LangChainDiscover ==
    /\ adapter = "langchain"
    /\ \E m \in Manifests :
         /\ tools' = from_manifest(m, mock_payments, BASE_URL)
         /\ loader' = Loaded(m)
    /\ UNCHANGED <<adapter, mock_payments, services, call>>

\* D3POpenAI.__init__ runs again on the object: the table is emptied and a
\* manifest is fetched (a failed fetch leaves the table empty, as an empty
\* manifest does)
OpenAIBegin ==
    /\ adapter = "openai"
    /\ loader.pc = "idle"
    /\ \E m \in Manifests :
         loader' = [pc |-> IF m = <<>> THEN "idle" ELSE "loading",
                    manifest |-> m, idx |-> 1]
    /\ services' = EmptyDict
    /\ UNCHANGED <<adapter, mock_payments, tools, call>>

\* one iteration of the loop of D3POpenAI.__init__
OpenAIStep ==
    /\ adapter = "openai"
    /\ loader.pc = "loading"
    /\ services' = D3POpenAI_init_step(services, loader.manifest[loader.idx], BASE_URL)
    /\ loader' = [loader EXCEPT !.idx = @ + 1,
                    !.pc = IF loader.idx = Len(loader.manifest)
                           THEN "idle" ELSE "loading"]
    /\ UNCHANGED <<adapter, mock_payments, tools, call>>

\* the module is loaded again: mcp and _services are created anew and a
\* manifest is fetched
McpBegin ==
    /\ adapter = "mcp"
    /\ loader.pc = "idle"
    /\ \E m \in Manifests :
         loader' = [pc |-> IF m = <<>> THEN "idle" ELSE "loading",
                    manifest |-> m, idx |-> 1]
    /\ services' = EmptyDict
    /\ tools' = <<>>
    /\ UNCHANGED <<adapter, mock_payments, call>>

\* one iteration of the registration loop
McpStep ==
    /\ adapter = "mcp"
    /\ loader.pc = "loading"
    /\ services' = mcp_services_step(services, loader.manifest[loader.idx], BASE_URL)
    /\ tools' = mcp_tools_step(tools, loader.manifest[loader.idx], BASE_URL)
    /\ loader' = [loader EXCEPT !.idx = @ + 1,
                    !.pc = IF loader.idx = Len(loader.manifest)
                           THEN "idle" ELSE "loading"]
    /\ UNCHANGED <<adapter, mock_payments, call>>

----------------------------------------------------------------------------
(* Dispatch *)

\* the call record after the first part of a dispatch
Started(name, args, self, out) ==
    [Idle EXCEPT !.pc = out.pc, !.name = <<name>>, !.args = <<args>>,
                 !.self = self, !.sent = out.sent, !.result = out.result]

\* the call record after the second part of a dispatch
Finished(c, resp, out) ==
    [c EXCEPT !.pc = out.pc, !.resp = <<resp>>, !.result = out.result,
              !.exc = out.exc, !.sent = @ \o out.more]

\* a CrewAI agent runs one of the discovered tools
CrewAIRun ==
    /\ adapter = "crewai"
    /\ call.pc = "idle"
    /\ \E i \in 1..Len(tools), payload \in ArgStrings :
         call' = Started(tools[i].name, payload, <<tools[i]>>,
                         D3PServiceTool_run_send(tools[i], payload))
    /\ UNCHANGED <<adapter, mock_payments, loader, services, tools>>

\* a LangChain agent runs one of the discovered tools (_run or _arun)
LangChainRun ==
    /\ adapter = "langchain"
    /\ call.pc = "idle"
    /\ \E i \in 1..Len(tools), payload \in ArgStrings :
         call' = Started(tools[i].name, payload, <<tools[i]>>,
                         D3PTool_run_send(tools[i], payload))
    /\ UNCHANGED <<adapter, mock_payments, loader, services, tools>>

\* an MCP client calls one of the registered tools
McpCall ==
    /\ adapter = "mcp"
    /\ call.pc = "idle"
    /\ \E i \in 1..Len(tools), params \in ArgStrings :
         call' = Started(tools[i].name, params, <<tools[i].fn>>,
                         tool_fn_send(tools[i].fn, params, mock_payments))
    /\ UNCHANGED <<adapter, mock_payments, loader, services, tools>>

\* the host calls D3POpenAI.execute(function_name, arguments)
OpenAIExecute ==
    /\ adapter = "openai"
    /\ call.pc = "idle"
    /\ \E function_name \in FunctionNames, arguments \in ArgStrings :
         LET found == Lookup(services, function_name)
         IN  call' = Started(function_name, arguments, found,
                             D3POpenAI_execute_send(found, mock_payments,
                                                    function_name, arguments))
    /\ UNCHANGED <<adapter, mock_payments, loader, services, tools>>

\* variant in which D3POpenAI.execute reads self._services again after the
\* post instead of using its local svc
Receive_relookup(c, resp) ==
    CASE adapter = "crewai" -> D3PServiceTool_run_recv(c.self[1], resp)
      [] adapter = "langchain" -> D3PTool_run_recv(c.self[1], resp)
      [] adapter = "mcp" -> tool_fn_recv(c.self[1], resp, mock_payments)
      [] adapter = "openai" ->
           IF c.name[1] \in DOMAIN services
           THEN D3POpenAI_execute_recv(services[c.name[1]], mock_payments, resp)
           ELSE Raised("KeyError")

\* requests.post returns or raises, and the dispatch runs to its end
Receive(c, resp) ==
    CASE adapter = "crewai" -> D3PServiceTool_run_recv(c.self[1], resp)
      [] adapter = "langchain" -> D3PTool_run_recv(c.self[1], resp)
      [] adapter = "mcp" -> tool_fn_recv(c.self[1], resp, mock_payments)
      [] adapter = "openai" -> D3POpenAI_execute_recv(c.self[1], mock_payments, resp)

Respond ==
    /\ call.pc = "waiting"
    /\ \E resp \in Responses :
         call' = Finished(call, resp, Receive(call, resp))
    /\ UNCHANGED <<adapter, mock_payments, loader, services, tools>>

\* the host takes the result (or the exception) and the adapter is ready
\* for the next dispatch
Return ==
    /\ call.pc \in {"returned", "raised"}
    /\ call' = Idle
    /\ UNCHANGED <<adapter, mock_payments, loader, services, tools>>

Next ==
    \/ CrewAIDiscover
    \/ LangChainDiscover
    \/ OpenAIBegin
    \/ OpenAIStep
    \/ McpBegin
    \/ McpStep
    \/ CrewAIRun
    \/ LangChainRun
    \/ McpCall
    \/ OpenAIExecute
    \/ Respond
    \/ Return

Spec == Init /\ [][Next]_vars

----------------------------------------------------------------------------
(* Properties of dispatch *)

\* the argument string of the dispatch in progress is not valid JSON
InvalidArguments == call.args # <<>> /\ ~json_loads(call.args[1]).ok

\* the result a dispatch returns for an error message
ErrorResult(message) == <<JsonDumps([error |-> message])>>

\* the remote answered the dispatch in progress with HTTP status st
Answered(st) ==
    /\ call.resp # <<>>
    /\ call.resp[1].kind = "http"
    /\ call.resp[1].status = st

C2_TransportErrorIsAResult ==
    (call.resp # <<>> /\ call.resp[1].kind = "fail") =>
        /\ call.pc = "returned"
        /\ call.exc = <<>>
        /\ call.result # <<>>
        /\ "error" \in DOMAIN call.result[1].dumps
        /\ call.result \notin { ErrorResult(<<"Invalid JSON payload">>),
                                ErrorResult(<<"Invalid JSON">>),
                                ErrorResult(<<"Invalid JSON arguments">>) }

\* the descriptor adapter a builds from manifest entry e, as a dispatch
\* captures it
DescriptorOf(a, e) ==
    CASE a = "crewai" ->
           D3PServiceTool_init(e["service_id"], e, mock_payments, BASE_URL)
      [] a = "langchain" ->
           D3PTool_init(e["service_id"], e, mock_payments, BASE_URL)
      [] a = "mcp" -> mcp_register(e, BASE_URL).tool.fn
      [] a = "openai" -> D3POpenAI_init_step(EmptyDict, e, BASE_URL)[D3pName(e["service_id"])]

\* the price a manifest entry states: pricing.sats, 0 when it states none
StatedPrice(e) ==
    IF "pricing" \in DOMAIN e /\ "sats" \in DOMAIN e["pricing"]
    THEN e["pricing"]["sats"] ELSE 0

\* the result that reports a required payment of the given price
ErrorWithPrice(price) ==
    << [dumps |-> [error |-> <<"L402 payment required">>,
                   status |-> 402,
                   message |-> <<"Service requires ", ToString(price),
                                 " sats via Lightning">>]] >>

C4_BypassHeaderIffMock ==
    \A i \in 1..Len(call.sent) :
        LET headers == call.sent[i].headers
        IN  /\ ("X-D3P-Cert-Test" \in DOMAIN headers) <=> mock_payments
            /\ "Content-Type" \in DOMAIN headers
            /\ headers["Content-Type"] = "application/json"

C4_Witness ==
    /\ call.sent # <<>>
    /\ ~mock_payments
    /\ "X-D3P-Cert-Test" \notin DOMAIN call.sent[1].headers

\* C5: a dispatch that reaches the send step has sent exactly one request,
\* also after a 402, another status, a body that is not JSON or a transport
\* failure; no dispatch ever sends a second one.
C5_ExactlyOneRequest ==
    /\ Len(call.sent) <= 1
    /\ (call.pc = "waiting" \/ call.resp # <<>>) => Len(call.sent) = 1

C5_Witness ==
    /\ Answered(PaymentRequiredStatus)
    /\ adapter = "openai"
    /\ call.pc = "returned"
    /\ Len(call.sent) = 1

\* C6: D3POpenAI.execute with a function name that is not a key of the
\* table returns the unknown-function error result and sends no request,
\* whether or not the argument string is valid JSON.
C6_UnknownToolNoRequest ==
    [][(/\ adapter = "openai"
        /\ call.pc = "idle"
        /\ call'.pc # "idle"
        /\ call'.name[1] \notin DOMAIN services)
       => (/\ call'.pc = "returned"
           /\ call'.sent = <<>>
           /\ call'.result = ErrorResult(<<"Unknown function: ">> \o call'.name[1]))]_vars

C6_Witness ==
    /\ adapter = "openai"
    /\ call.pc = "returned"
    /\ call.self = <<>>
    /\ InvalidArguments
    /\ call.name[1] = D3pName(<<"b">>)
    /\ call.result = ErrorResult(<<"Unknown function: ">> \o call.name[1])

----------------------------------------------------------------------------
(* Properties of discovery *)

\* the service ids of manifest m are pairwise distinct
DistinctIds(m) ==
    \A i, j \in 1..Len(m) :
        m[i]["service_id"] = m[j]["service_id"] => i = j

\* C7: after discovery of a manifest of N entries with pairwise distinct
\* service ids the adapter holds exactly N tool descriptors, the i-th named
\* "d3p_" followed by the i-th service id, and no two share a name.
C7_OneToolPerDistinctService ==
    (loader.pc = "idle" /\ DistinctIds(loader.manifest)) =>
        LET m == loader.manifest
            N == Len(m)
            expected == { <<"d3p_">> \o m[i]["service_id"] : i \in 1..N }
        IN  IF adapter = "openai"
            THEN LET defs == tool_definitions(services)
                 IN  /\ Cardinality(defs) = N
                     /\ { d.name : d \in defs } = expected
                     /\ \A d1, d2 \in defs : d1.name = d2.name => d1 = d2
            ELSE /\ Len(tools) = N
                 /\ \A i \in 1..N : tools[i].name = <<"d3p_">> \o m[i]["service_id"]
                 /\ \A i, j \in 1..N : tools[i].name = tools[j].name => i = j

C7_Witness ==
    /\ loader.pc = "idle"
    /\ DistinctIds(loader.manifest)
    /\ Len(loader.manifest) = 2
    /\ adapter = "mcp"
    /\ Len(tools) = 2

\* the place of the last entry of m with the service id of m[i]
LastOf(m, i) ==
    CHOOSE j \in 1..Len(m) :
        /\ m[j]["service_id"] = m[i]["service_id"]
        /\ \A k \in 1..Len(m) : m[k]["service_id"] = m[i]["service_id"] => k <= j

\* the descriptors the adapter holds under tool name n, as a dispatch to n
\* captures them
HeldUnder(n) ==
    CASE adapter \in {"crewai", "langchain"} ->
           { i \in 1..Len(tools) : tools[i].name = n }
      [] adapter = "mcp" -> { i \in 1..Len(tools) : tools[i].name = n }
      [] adapter = "openai" -> IF n \in DOMAIN services THEN {1} ELSE {}

DescriptorHeld(n, i) ==
    CASE adapter \in {"crewai", "langchain"} -> tools[i]
      [] adapter = "mcp" -> tools[i].fn
      [] adapter = "openai" -> services[n]

\* C8: after discovery of a manifest that repeats a service id, every
\* adapter holds exactly one tool for that id, built from the last entry
\* with it (its endpoint and its price).
C8_LastSeenWins ==
    loader.pc = "idle" =>
        \A i \in 1..Len(loader.manifest) :
            LET m == loader.manifest
                n == <<"d3p_">> \o m[i]["service_id"]
            IN  /\ Cardinality(HeldUnder(n)) = 1
                /\ \A k \in HeldUnder(n) :
                     DescriptorHeld(n, k) = DescriptorOf(adapter, m[LastOf(m, i)])

\* C9: the request of a dispatch and the price of its PaymentRequired
\* result come from one manifest entry with the called name, whatever
\* re-discovery has done to the table since the dispatch started.
C9_SnapshotDescriptor ==
    call.sent # <<>> =>
        \E e \in Entries :
            /\ call.name[1] = <<"d3p_">> \o e["service_id"]
            /\ call.sent[1].url = Resolve(BASE_URL, EndpointOf(e, e["service_id"]))
            /\ (~mock_payments /\ Answered(PaymentRequiredStatus)) =>
                 /\ call.pc = "returned"
                 /\ call.result = ErrorWithPrice(StatedPrice(e))

\* a PaymentRequired result was returned while the table holds, under the
\* called name, an entry with another price than the one reported
C9_Witness ==
    /\ adapter = "openai"
    /\ ~mock_payments
    /\ Answered(PaymentRequiredStatus)
    /\ call.pc = "returned"
    /\ call.name[1] \in DOMAIN services
    /\ SatsOf(services[call.name[1]]) # SatsOf(call.self[1])

----------------------------------------------------------------------------
(* Tool definition export: {name, description, parameterSchema} per tool *)

\* what adapter a exports for manifest entry e
ExportOf(a, e) ==
    CASE a = "crewai" ->
           LET t == D3PServiceTool_init(e["service_id"], e, mock_payments, BASE_URL)
           IN  [name |-> t.name, description |-> t.description,
                parameterSchema |-> t.args_schema]
      [] a = "langchain" ->
           LET t == D3PTool_init(e["service_id"], e, mock_payments, BASE_URL)
           IN  [name |-> t.name, description |-> t.description,
                parameterSchema |-> t.args_schema]
      [] a = "mcp" ->
           LET t == mcp_register(e, BASE_URL).tool
           IN  [name |-> t.name, description |-> t.description,
                parameterSchema |-> t.fn.signature]
      [] a = "openai" ->
           LET n == D3pName(e["service_id"])
               d == OpenAIDefinition(n, D3POpenAI_init_step(EmptyDict, e, BASE_URL)[n])
           IN  [name |-> d.name, description |-> d.description,
                parameterSchema |-> d.parameters]

\* what the running adapter exports for the tools it holds
Exported ==
    CASE adapter \in {"crewai", "langchain"} ->
           { [name |-> tools[i].name, description |-> tools[i].description,
              parameterSchema |-> tools[i].args_schema] : i \in 1..Len(tools) }
      [] adapter = "mcp" ->
           { [name |-> tools[i].name, description |-> tools[i].description,
              parameterSchema |-> tools[i].fn.signature] : i \in 1..Len(tools) }
      [] adapter = "openai" ->
           { [name |-> d.name, description |-> d.description,
              parameterSchema |-> d.parameters] : d \in tool_definitions(services) }

ExportManifests == { <<e>> : e \in ExportEntries }

InitExport == InitFrom(ExportManifests)

\* the process is started on another one-entry manifest
ExportReload ==
    /\ \E m \in ExportManifests :
         /\ loader' = Loaded(m)
         /\ services' = ServicesAfter(adapter, m)
         /\ tools' = ToolsAfter(adapter, m, mock_payments)
    /\ UNCHANGED <<adapter, mock_payments, call>>

NextExport == ExportReload

SpecExport == InitExport /\ [][NextExport]_vars

\* adapters built on the same description format
Family(a) ==
    IF a \in {"crewai", "langchain"} THEN {"crewai", "langchain"}
    ELSE {"mcp", "openai"}

----------------------------------------------------------------------------
(* Endpoint resolution *)

\* the letters a URL scheme is spelled with in the model
SchemeLetters == {"h", "t", "p", "s", "f"}

\* s is an absolute URL: a scheme of letters followed by ://
IsAbsoluteUrl(s) ==
    \E i \in 2..Len(s) :
        /\ i + 2 <= Len(s)
        /\ s[i] = ":" /\ s[i + 1] = "/" /\ s[i + 2] = "/"
        /\ \A j \in 1..(i - 1) : s[j] \in SchemeLetters

\* the endpoints a manifest entry can state: a path, a path without a
\* leading slash that begins with the letters http, an https URL and an
\* ftp URL
EndpointChoices ==
    { RelEndpoint,
      <<"h", "t", "t", "p", "bin/status">>,
      AbsEndpoint,
      <<"f", "t", "p", ":", "/", "/", "files.test/z">> }

\* the entries the endpoint model draws from: each service id with no
\* endpoint or with one of the endpoints above
EndpointEntries ==
    { MkEntry(sid, ep, <<[sats |-> 1]>>, <<>>, <<>>, <<>>) :
        sid \in Sids, ep \in { <<>> } \cup { <<x>> : x \in EndpointChoices } }

EndpointManifests == { <<e>> : e \in EndpointEntries }

InitEndpoint == InitFrom(EndpointManifests)

\* the process is started on another one-entry manifest
EndpointReload ==
    /\ \E m \in EndpointManifests :
         /\ loader' = Loaded(m)
         /\ services' = ServicesAfter(adapter, m)
         /\ tools' = ToolsAfter(adapter, m, mock_payments)
    /\ UNCHANGED <<adapter, mock_payments, call>>

NextEndpoint ==
    \/ EndpointReload
    \/ CrewAIRun
    \/ LangChainRun
    \/ McpCall
    \/ OpenAIExecute
    \/ Respond
    \/ Return

SpecEndpoint == InitEndpoint /\ [][NextEndpoint]_vars

\* the endpoint the dispatch in progress captured
CapturedEndpoint ==
    CASE adapter \in {"crewai", "langchain", "mcp"} -> call.self[1].endpoint
      [] adapter = "openai" -> call.self[1]["_endpoint"]

\* the fully-qualified endpoint of manifest entry e: its endpoint when that
\* is an absolute URL, else the base URL followed by the path, the path
\* being /api/services/<service_id> when e has no endpoint
FullyQualified(e) ==
    IF "endpoint" \notin DOMAIN e
    THEN BASE_URL \o <<"/", "api/services/">> \o e["service_id"]
    ELSE IF IsAbsoluteUrl(e["endpoint"]) THEN e["endpoint"]
    ELSE BASE_URL \o e["endpoint"]

\* C11: every dispatch sends its request to the endpoint its descriptor
\* has held since load, and that endpoint is the fully-qualified endpoint of
\* the descriptor's manifest entry: no request goes to an unresolved
\* relative path.
C11_EndpointsFullyQualified ==
    call.sent # <<>> =>
        \E e \in EndpointEntries \cup Entries :
            /\ call.self = <<DescriptorOf(adapter, e)>>
            /\ CapturedEndpoint = FullyQualified(e)
            /\ call.sent[1].url = CapturedEndpoint
            /\ IsAbsoluteUrl(call.sent[1].url)

====
